---------------------------- MODULE Spec2Model ----------------------------
(***************************************************************************)
(* A model of generic_dd::grids::GridBasedGrid (src/grids/gridbased.cpp):  *)
(* the grid-point based domain decomposition of a periodic box of cells    *)
(* over the ranks of a Cartesian communicator.                             *)
(*                                                                         *)
(* Every rank holds one GridBasedGrid object.  The variables are functions *)
(* from ranks to the fields of that object; the messages the ranks post to *)
(* MPI collectives are the post_* variables.  Lengths are fixed-point      *)
(* integers: One units are the length 1.0, a cell is CS units wide.  The   *)
(* value NaN stands for a non-finite double; it is absorbing in arithmetic *)
(* and every comparison with it is false, as in IEEE 754.                  *)
(*                                                                         *)
(* The process grid is Dims[1] x 1 x 1, so every subdomain ("octagon") is  *)
(* an axis-parallel box whatever the grid points are, and Contains needs   *)
(* nothing of the tetra library but its behaviour on boxes.                *)
(***************************************************************************)
EXTENDS Integers, Sequences, FiniteSets, TLC

(***************************************************************************)
(* Configuration                                                           *)
(***************************************************************************)
\* node_grid: the dimensions of comm_cart, as MPI_Cart_get returns them
VARIABLE node_grid
Dims == node_grid
\* the process grid the ranks are started on
ProcessGrid == <<2, 1, 1>>
\* a process grid on which a rank has ranks outside its neighbourhood
WideGrid == <<4, 1, 1>>
\* gbox.grid_size(): cells per axis
GridSize == <<6, 2, 2>>
\* gbox.cell_size() in units, the same on every axis
CS == 8
\* the length 1.0 in units
One == 8
\* the 1e-6 of init_partitioning in units: smaller than half a cell
Eps == 1
\* denominator of the step size mu: mu = k / MuDen, so that the decimal
\* fractions of up to two digits that command() parses are integers
MuDen == 100
\* the values of lambda_p: the sum of the weights m() returns on a rank
Loads == {0, 1}
\* repartition() is called at most MaxCalls times on a rank
MaxCalls == 2

Axes == 1 .. 3
\* a Vec3 holds its three components by value
Vec3(f) == << f[1], f[2], f[3] >>
\* a std::vector or std::array holds its elements by value
Vector(s) == << >> \o s
\* one object on every rank, its fields held by value
PerRank(f) == f @@ << >>
\* the ranks of a communicator of dimensions dims
NodesOf(dims) == 0 .. (dims[1] * dims[2] * dims[3] - 1)
n_nodes == Dims[1] * Dims[2] * Dims[3]
Ranks == 0 .. (n_nodes - 1)
box_l == Vec3([d \in Axes |-> GridSize[d] * CS])
ncells == GridSize[1] * GridSize[2] * GridSize[3]
Cells == 0 .. (ncells - 1)
NaN == 0 - 1000000

(***************************************************************************)
(* Arithmetic on doubles                                                   *)
(***************************************************************************)
IsNaN(a) == a = NaN
FAdd(a, b) == IF IsNaN(a) \/ IsNaN(b) THEN NaN ELSE a + b
FSub(a, b) == IF IsNaN(a) \/ IsNaN(b) THEN NaN ELSE a - b
\* a < b on doubles: false when one of them is NaN
FLess(a, b) == ~IsNaN(a) /\ ~IsNaN(b) /\ a < b
FLeq(a, b) == ~IsNaN(a) /\ ~IsNaN(b) /\ a <= b
Abs(a) == IF a < 0 THEN 0 - a ELSE a
\* the quotient rounded toward zero; 0/0 and x/0 are non-finite
Quot(a, b) ==
  IF b = 0 THEN NaN
  ELSE IF (a >= 0) = (b > 0) THEN Abs(a) \div Abs(b)
  ELSE 0 - (Abs(a) \div Abs(b))

\* std::sqrt on a squared length in units^2, rounded down
ISqrt(n) == CHOOSE k \in 0 .. n : k * k <= n /\ (k + 1) * (k + 1) > n

\* norm2(v), NaN when a component is
norm2(v) ==
  IF \E d \in Axes : IsNaN(v[d]) THEN NaN
  ELSE ISqrt(v[1] * v[1] + v[2] * v[2] + v[3] * v[3])

\* dist2(v, w)
dist2(v, w) == norm2([d \in Axes |-> FSub(v[d], w[d])])

(***************************************************************************)
(* util::linearize / unlinearize, the Cartesian communicator               *)
(***************************************************************************)
linearize(c, grid) == (c[1] * grid[2] + c[2]) * grid[3] + c[3]
unlinearize(cidx, grid) ==
  << (cidx \div grid[3]) \div grid[2], (cidx \div grid[3]) % grid[2], cidx % grid[3] >>

\* MPI_Cart_coords / MPI_Cart_rank of comm_cart (row major)
CartCoords(r) == unlinearize(r, Dims)
CartRank(c) == linearize(c, Dims)

(***************************************************************************)
(* gbox: the global box of cells                                           *)
(***************************************************************************)
MidpointOf ==
  PerRank([g \in Cells |-> Vec3([d \in Axes |-> unlinearize(g, GridSize)[d] * CS + CS \div 2])])
midpoint(g) == MidpointOf[g]

\* the 26 offsets of the full shell in their fixed order
ShellOffsets ==
  LET all == [k \in 1 .. 27 |-> << ((k - 1) \div 9) - 1, (((k - 1) \div 3) % 3) - 1, ((k - 1) % 3) - 1 >>]
  IN  [k \in 1 .. 26 |-> IF k <= 13 THEN all[k] ELSE all[k + 1]]

\* gbox.neighbor(g, k), k in 0..25, with periodic wrap
neighbor(g, k) ==
  LET c == unlinearize(g, GridSize)
      o == ShellOffsets[k + 1]
  IN  linearize([d \in Axes |-> (c[d] + o[d] + GridSize[d]) % GridSize[d]], GridSize)

\* the first half of the shell only, taken twice
HalfShell(g) == [k \in 1 .. 26 |-> neighbor(g, (k - 1) % 13)]
\* gbox.full_shell_neigh_without_center(g)
\* the shells of all cells
ShellOf == [g \in Cells |-> [k \in 1 .. 26 |-> neighbor(g, k - 1)]]
full_shell_neigh_without_center(g) == ShellOf[g]

\* grid.hpp: my_right of rank r, and the closed-form owner of a position
my_right(r) == [d \in Axes |-> ((CartCoords(r)[d] + 1) * box_l[d]) \div Dims[d]]
map_position_node_array(p) ==
  CartRank([d \in Axes |-> (p[d] * Dims[d]) \div box_l[d]])


(***************************************************************************)
(* Containers                                                              *)
(***************************************************************************)
\* a local variable: v is computed once and F goes on with its value
Bind(v, F(_)) == CHOOSE y \in {F(x) : x \in {v}} : TRUE
InSeq(v, el) == \E i \in 1 .. Len(v) : v[i] = el
\* push_back_unique(v, el)
push_back_unique(v, el) == IF InSeq(v, el) THEN v ELSE Append(v, el)
\* the vector left in the order of insertion
Unsorted(v) == v
\* std::sort, ascending
SortAsc(v) == SortSeq(v, LAMBDA a, b : a < b)
\* m[k] of a std::map or std::unordered_map: the value, 0 for a missing key
MapGet(m, k) == IF k \in DOMAIN m THEN m[k] ELSE 0
\* the map after m[k] was evaluated: a missing key is inserted with value 0
MapTouch(m, k) == IF k \in DOMAIN m THEN m ELSE m @@ (k :> 0)
\* the map after m[k] = v
MapPut(m, k, v) == IF k \in DOMAIN m THEN [m EXCEPT ![k] = v] ELSE m @@ (k :> v)
EmptyMap == [k \in {} |-> 0]

(***************************************************************************)
(* init_neighbors                                                          *)
(***************************************************************************)
\* the offsets in the order of the three nested loops, the centre included
NeighborOffsets ==
  [k \in 1 .. 27 |-> << ((k - 1) \div 9) - 1, (((k - 1) \div 3) % 3) - 1, ((k - 1) % 3) - 1 >>]

\* a wrap that sends the coordinate below 0 to 0 instead of dims[d] - 1
WrapToZero(dims, me, off) ==
  LET c  == unlinearize(me, dims)
      nc == [d \in Axes |->
               IF c[d] + off[d] < 0 THEN 0
               ELSE IF c[d] + off[d] = dims[d] THEN 0
               ELSE c[d] + off[d]]
  IN  linearize(nc, dims)

\* the rank at offset off of rank me, with the periodic wrap of init_neighbors;
\* dims and the coordinates of me are what MPI_Cart_get returns
WrapRank(dims, me, off) ==
  LET c  == unlinearize(me, dims)
      nc == [d \in Axes |->
               IF c[d] + off[d] < 0 THEN dims[d] - 1
               ELSE IF c[d] + off[d] = dims[d] THEN 0
               ELSE c[d] + off[d]]
  IN  linearize(nc, dims)

\* the body of the three nested loops for the offset off
NeighborStep(dims, me, off, st) ==
    LET r   == WrapRank(dims, me, off)
        st1 == IF r \in DOMAIN st.neighbor_idx THEN st
               ELSE [st EXCEPT !.neighbor_ranks = Append(@, r),
                               !.neighbor_idx = MapPut(@, r, Len(st.neighbor_ranks))]
        st2 == IF \A d \in Axes : off[d] >= 0
               THEN [st1 EXCEPT !.source_neigh = push_back_unique(@, r)] ELSE st1
        st3 == IF \A d \in Axes : off[d] <= 0
               THEN [st2 EXCEPT !.dest_neigh = push_back_unique(@, r)] ELSE st2
    IN  IF r = me THEN st ELSE st3

RECURSIVE NeighborLoop(_, _, _, _, _)
\* the steps lo .. hi of the three nested loops, in their order: the first
\* half, then the second half on the state the first half leaves
NeighborLoop(dims, me, lo, hi, st) ==
  IF lo > hi THEN st
  ELSE IF lo = hi THEN NeighborStep(dims, me, NeighborOffsets[lo], st)
  ELSE Bind(NeighborLoop(dims, me, lo, (lo + hi) \div 2, st),
            LAMBDA nx : NeighborLoop(dims, me, ((lo + hi) \div 2) + 1, hi, nx))

\* the fields init_neighbors sets on rank me of a process grid of dimensions
\* dims; neighcomm is the adjacency of the distributed graph communicator
init_neighbors(dims, me) ==
  Bind(NeighborLoop(dims, me, 1, 27, [neighbor_ranks |-> <<>>, neighbor_idx |-> EmptyMap,
                                source_neigh |-> <<>>, dest_neigh |-> <<>>]),
       LAMBDA st :
         [neighbor_ranks |-> st.neighbor_ranks,
          neighbor_idx   |-> st.neighbor_idx,
          neighcomm      |-> [sources |-> Append(st.source_neigh, me),
                              dests   |-> Append(st.dest_neigh, me)]])

\* undirected_neighbor_count(neighcomm): the indegree
undirected_neighbor_count(nc) == Len(nc.sources)

(***************************************************************************)
(* Octagons                                                                *)
(***************************************************************************)
\* the offsets of bounding_box in loop order
CornerOffsets ==
  [k \in 1 .. 8 |-> << (k - 1) \div 4, ((k - 1) \div 2) % 2, (k - 1) % 2 >>]

\* bounding_box(r) over the grid point table gps
bounding_box(r, gps) ==
  LET c == CartCoords(r)
  IN  Vector([k \in 1 .. 8 |->
        LET off    == CornerOffsets[k]
            wraps  == [d \in Axes |-> c[d] - off[d] < 0]
            nc     == [d \in Axes |-> IF wraps[d] THEN Dims[d] - 1 ELSE c[d] - off[d]]
            rank   == CartRank(nc)
        IN  Vec3([d \in Axes |->
              FAdd(gps[rank][d], IF wraps[d] THEN 0 - box_l[d] ELSE 0)])])

SetMin(S) == CHOOSE x \in S : \A y \in S : x <= y
SetMax(S) == CHOOSE x \in S : \A y \in S : x >= y

\* tetra::Octagon(corners) for corners that span an axis-parallel box: the
\* box from lo to hi, or no box when a corner is not finite
Octagon(corners) ==
  LET finite == \A k \in 1 .. 8 : \A d \in Axes : ~IsNaN(corners[k][d])
  IN  [finite |-> finite,
       lo |-> Vec3([d \in Axes |->
                IF finite THEN SetMin({corners[k][d] : k \in 1 .. 8}) ELSE 0]),
       hi |-> Vec3([d \in Axes |->
                IF finite THEN SetMax({corners[k][d] : k \in 1 .. 8}) ELSE 0])]

\* Octagon::contains(p): the closed box (a point on a face shared by two
\* boxes is in both); nothing when a corner is not finite
Contains(oct, p) ==
  /\ oct.finite
  /\ \A d \in Axes : oct.lo[d] <= p[d] /\ p[d] <= oct.hi[d]

\* gbox.cell_at_pos(p)
cell_at_pos(p) ==
  linearize([d \in Axes |-> ((p[d] % box_l[d]) \div CS) % GridSize[d]], GridSize)

(***************************************************************************)
(* position_to_rank                                                        *)
(***************************************************************************)
\* the result that stands for the exception "Position unknown"
PositionUnknown == 0 - 1

RECURSIVE FirstDom(_, _, _, _)
\* the scan of neighbor_doms; i is 1-based
FirstDom(doms, ranks, mp, i) ==
  IF i > Len(ranks) THEN PositionUnknown
  ELSE IF Contains(doms[i], mp) THEN ranks[i]
  ELSE FirstDom(doms, ranks, mp, i + 1)

\* position_to_rank(pos) on a grid object g of rank me
position_to_rank(me, g, pos) ==
  Bind(midpoint(cell_at_pos(pos)), LAMBDA mp :
      IF g.is_regular_grid THEN map_position_node_array(mp)
      ELSE IF Contains(g.my_dom, mp) THEN me
      ELSE FirstDom(g.neighbor_doms, g.neighbor_ranks, mp, 1))

\* gloidx_to_rank(gloidx)
gloidx_to_rank(me, g, gloidx) == position_to_rank(me, g, midpoint(gloidx))

(***************************************************************************)
(* reinit                                                                  *)
(*                                                                         *)
(* The build is the one with NDEBUG: ENSURE(cond) is empty.  What the      *)
(* ENSUREs state is checked as properties of the model instead.            *)
(***************************************************************************)
\* NDEBUG is defined, so GRID_DEBUG is not
GRID_DEBUG == FALSE

\* a default constructed GhostExchangeDesc
EmptyExchangeDesc == [dest |-> 0 - 1, recv |-> <<>>, send |-> <<>>]

\* the body of the loop over all global cells for the cell i: st holds
\* cells, global_to_local, nlocalcells
LocalStep(my_dom_, i, st) ==
  IF Contains(my_dom_, midpoint(i))
  THEN [st EXCEPT !.cells = Append(@, i),
                  !.global_to_local = MapPut(@, i, st.nlocalcells),
                  !.nlocalcells = @ + 1]
  ELSE st

RECURSIVE LocalLoop(_, _, _, _)
\* the steps lo .. hi of the loop over all global cells, in their order
LocalLoop(my_dom_, lo, hi, st) ==
  IF lo > hi THEN st
  ELSE IF lo = hi THEN LocalStep(my_dom_, lo, st)
  ELSE Bind(LocalLoop(my_dom_, lo, (lo + hi) \div 2, st),
            LAMBDA nx : LocalLoop(my_dom_, ((lo + hi) \div 2) + 1, hi, nx))

\* every cell taken for a new ghost cell
NeverKnown(st, neighidx) == FALSE
\* global_to_local.find(neighidx) != std::end(global_to_local)
IsKnown(st, neighidx) == neighidx \in DOMAIN st.global_to_local
\* the index without the offset of the local cells
GhostCount(st) == st.nghostcells
\* the local index given to a new ghost cell
GhostIndex(st) == st.nlocalcells + st.nghostcells

\* the body of the loop over the shell of local cell number i (0-based) for
\* the neighbour cell neighidx
GhostStep(me, g, st, i, neighidx) ==
  Bind(gloidx_to_rank(me, g, neighidx), LAMBDA owner :
      IF owner = PositionUnknown THEN [st EXCEPT !.thrown = TRUE]
      ELSE IF owner = me THEN st
      ELSE
        Bind(IF IsKnown(st, neighidx) THEN st
             ELSE [st EXCEPT !.cells = Append(@, neighidx),
                             !.global_to_local = MapPut(@, neighidx, GhostIndex(st)),
                             !.nghostcells = @ + 1], LAMBDA st1 :
        Bind(MapGet(st.neighbor_idx, owner), LAMBDA idx :
        Bind([st1 EXCEPT !.neighbor_idx = MapTouch(@, owner)], LAMBDA st2 :
        Bind(st2.exchange_vec[idx + 1], LAMBDA e :
          [st2 EXCEPT !.exchange_vec[idx + 1] =
             [dest |-> IF e.dest = 0 - 1 THEN owner ELSE e.dest,
              recv |-> push_back_unique(e.recv, neighidx),
              send |-> push_back_unique(e.send, st.cells[i + 1])]])))))

RECURSIVE ShellLoop(_, _, _, _, _, _)
\* the steps lo .. hi of the loop over the shell of local cell number i, in
\* their order; an exception ends the loop
ShellLoop(me, g, st, i, lo, hi) ==
  IF lo > hi \/ st.thrown THEN st
  ELSE IF lo = hi
  THEN Bind(full_shell_neigh_without_center(st.cells[i + 1])[lo],
            LAMBDA neighidx : GhostStep(me, g, st, i, neighidx))
  ELSE Bind(ShellLoop(me, g, st, i, lo, (lo + hi) \div 2),
            LAMBDA nx : ShellLoop(me, g, nx, i, ((lo + hi) \div 2) + 1, hi))

RECURSIVE GhostLoop(_, _, _, _, _)
\* the steps lo .. hi of the loop over the local cells, in their order
GhostLoop(me, g, st, lo, hi) ==
  IF lo > hi \/ st.thrown THEN st
  ELSE IF lo = hi THEN ShellLoop(me, g, st, lo, 1, 26)
  ELSE Bind(GhostLoop(me, g, st, lo, (lo + hi) \div 2),
            LAMBDA nx : GhostLoop(me, g, nx, ((lo + hi) \div 2) + 1, hi))

\* the global index left as it is
NotTranslated(g2l, i) == i
\* the lambda glo_to_loc
glo_to_loc(g2l, i) == MapGet(g2l, i)

\* the last loop of reinit on one exchange descriptor
SortAndTranslate(v, g2l) ==
  [dest |-> v.dest,
   recv |-> Vector([j \in 1 .. Len(v.recv) |-> glo_to_loc(g2l, SortAsc(v.recv)[j])]),
   send |-> Vector([j \in 1 .. Len(v.send) |-> glo_to_loc(g2l, SortAsc(v.send)[j])])]

\* the object after the loop over all global cells left st0, with the
\* vectors resized to the local cells and the exchange descriptors cleared
AfterLocalLoop(g, st0) ==
  [cells |-> st0.cells, global_to_local |-> st0.global_to_local,
   nlocalcells |-> st0.nlocalcells, nghostcells |-> 0,
   exchange_vec |-> Vector([j \in 1 .. Len(g.neighbor_ranks) |-> EmptyExchangeDesc]),
   neighbor_idx |-> g.neighbor_idx, thrown |-> FALSE]

\* reinit() on the grid object g of rank me: the fields it sets, with thrown
\* when gloidx_to_rank threw and left the object half built
reinit(me, g) ==
  Bind(LocalLoop(g.my_dom, 0, ncells - 1,
                 [cells |-> <<>>, global_to_local |-> EmptyMap, nlocalcells |-> 0]),
       LAMBDA st0 :
  Bind(GhostLoop(me, g, AfterLocalLoop(g, st0), 0, st0.nlocalcells - 1),
       LAMBDA st2 :
         IF st2.thrown THEN st2
         ELSE [st2 EXCEPT !.exchange_vec =
                 Vector([j \in 1 .. Len(st2.exchange_vec) |->
                    SortAndTranslate(st2.exchange_vec[j], st2.global_to_local)])]))

(***************************************************************************)
(* init_partitioning, init_octagons                                        *)
(***************************************************************************)
\* the grid point init_partitioning copies from grid.hpp
InitialGridpoint(r) ==
  Vec3([d \in Axes |->
          IF my_right(r)[d] < box_l[d] THEN my_right(r)[d] - Eps ELSE my_right(r)[d]])

\* init_octagons() given the all-gathered table: my_dom and neighbor_doms
init_octagons(me, gps, nranks) ==
  [my_dom        |-> Bind(bounding_box(me, gps), LAMBDA bb : Octagon(bb)),
   neighbor_doms |-> Vector([j \in 1 .. Len(nranks) |->
                       Bind(bounding_box(nranks[j], gps), LAMBDA bb : Octagon(bb))])]

(***************************************************************************)
(* State                                                                   *)
(***************************************************************************)
VARIABLES
  \* the fields of the GridBasedGrid object of every rank
  mu, gridpoint, gridpoints, is_regular_grid, my_dom, neighbor_doms,
  neighbor_ranks, neighbor_idx, neighcomm,
  nlocalcells, nghostcells, cells, global_to_local, exchange_vec,
  \* where every rank is in repartition(), and how often it has called it
  pc, ncalls,
  \* the locals of repartition() on every rank
  lambda_p, r_p, lambda, old_gridpoints,
  \* what every rank has posted to the collectives of repartition()
  post_lambda, post_r, post_gridpoint, post_nconflicts, post_octagons,
  \* the last value repartition() returned, the number of times the
  \* exchange_start_callback ran in the last call, and the fields as they
  \* were when the last call began
  result, callbacks, pre

fields == << mu, gridpoint, gridpoints, is_regular_grid, my_dom, neighbor_doms,
             neighbor_ranks, neighbor_idx, neighcomm,
             nlocalcells, nghostcells, cells, global_to_local, exchange_vec, node_grid >>
decomposition == << nlocalcells, nghostcells, cells, global_to_local, exchange_vec >>
topology == << node_grid, neighbor_ranks, neighcomm >>
locals == << lambda_p, r_p, lambda, old_gridpoints >>
posts == << post_lambda, post_r, post_gridpoint, post_nconflicts, post_octagons >>
vars == << fields, pc, ncalls, locals, posts, result, callbacks, pre >>

\* the object of rank r as reinit and position_to_rank read it
Grid(r) ==
  [is_regular_grid |-> is_regular_grid[r], my_dom |-> my_dom[r],
   neighbor_doms |-> neighbor_doms[r], neighbor_ranks |-> neighbor_ranks[r],
   neighbor_idx |-> neighbor_idx[r]]

\* the fields a rejected repartition() has to leave as they were
Snapshot(r) ==
  [gridpoint |-> gridpoint[r], gridpoints |-> gridpoints[r],
   is_regular_grid |-> is_regular_grid[r], my_dom |-> my_dom[r],
   neighbor_doms |-> neighbor_doms[r],
   nlocalcells |-> nlocalcells[r], nghostcells |-> nghostcells[r],
   cells |-> cells[r], global_to_local |-> global_to_local[r],
   exchange_vec |-> exchange_vec[r]]

(***************************************************************************)
(* The queries, on the object of rank r.  operator[] of global_to_local    *)
(* and neighbor_idx returns 0 for a missing key and inserts it; a later    *)
(* query finds the inserted 0, so the value a query returns is the same    *)
(* with or without the keys that earlier queries inserted.                 *)
(***************************************************************************)
n_local_cells(r) == nlocalcells[r]
n_ghost_cells(r) == nghostcells[r]
n_neighbors(r) == Len(neighbor_ranks[r])
\* neighbor_rank(i), i is 0-based
neighbor_rank(r, i) == neighbor_ranks[r][i + 1]
\* cell_neighbor_index(cellidx, neigh)
cell_neighbor_index(r, cellidx, neigh) ==
  MapGet(global_to_local[r], neighbor(cells[r][cellidx + 1], neigh))
\* position_to_rank(pos) on the object rank r holds
PositionToRank(r, pos) == position_to_rank(r, Grid(r), pos)
\* the result that stands for the exceptions "Particle not in local box"
\* and "Call to position_to_cell for ghost layer cell"
NotLocal == 0 - 2
\* position_to_cell_index(pos): the two checks exist only under GRID_DEBUG
position_to_cell_index(r, pos) ==
  IF GRID_DEBUG /\ PositionToRank(r, pos) # r THEN NotLocal
  ELSE IF GRID_DEBUG /\ MapGet(global_to_local[r], cell_at_pos(pos)) >= n_local_cells(r)
  THEN NotLocal
  ELSE MapGet(global_to_local[r], cell_at_pos(pos))
\* the rank itself returned in place of its index
RankAsIndex(r, pos) == PositionToRank(r, pos)
\* position_to_neighidx(pos): the exception of position_to_rank passes through
position_to_neighidx(r, pos) ==
  IF PositionToRank(r, pos) = PositionUnknown THEN PositionUnknown
  ELSE MapGet(neighbor_idx[r], PositionToRank(r, pos))

(***************************************************************************)
(* Construction: GridBasedGrid() on every rank                             *)
(***************************************************************************)
InitialGridpoints == [r \in Ranks |-> InitialGridpoint(r)]

\* the object of rank r after init_partitioning()
Partitioned(r) ==
  Bind(init_neighbors(Dims, r), LAMBDA nb :
  Bind(init_octagons(r, InitialGridpoints, nb.neighbor_ranks), LAMBDA oc :
       [is_regular_grid |-> TRUE, my_dom |-> oc.my_dom, neighbor_doms |-> oc.neighbor_doms,
        neighbor_ranks |-> nb.neighbor_ranks, neighbor_idx |-> nb.neighbor_idx,
        neighcomm |-> nb.neighcomm]))

\* the decomposition of rank r after the reinit() of the construction
Constructed(r) == Bind(Partitioned(r), LAMBDA g : reinit(r, g))

\* GridBasedGrid() on every rank of a Cartesian communicator of dimensions dims
Construct(dims) ==
  /\ node_grid = dims
  /\ \E part \in {PerRank([r \in Ranks |-> Partitioned(r)])} :
     \E built \in {PerRank([r \in Ranks |-> Constructed(r)])} :
       /\ mu = [r \in Ranks |-> MuDen]
       /\ gridpoint = InitialGridpoints
       /\ gridpoints = [r \in Ranks |-> InitialGridpoints]
       /\ is_regular_grid = [r \in Ranks |-> TRUE]
       /\ my_dom = [r \in Ranks |-> part[r].my_dom]
       /\ neighbor_doms = [r \in Ranks |-> part[r].neighbor_doms]
       /\ neighbor_ranks = [r \in Ranks |-> part[r].neighbor_ranks]
       /\ neighbor_idx = [r \in Ranks |-> built[r].neighbor_idx]
       /\ neighcomm = [r \in Ranks |-> part[r].neighcomm]
       /\ nlocalcells = [r \in Ranks |-> built[r].nlocalcells]
       /\ nghostcells = [r \in Ranks |-> built[r].nghostcells]
       /\ cells = [r \in Ranks |-> built[r].cells]
       /\ global_to_local = [r \in Ranks |-> built[r].global_to_local]
       /\ exchange_vec = [r \in Ranks |-> built[r].exchange_vec]
       /\ pc = [r \in Ranks |-> "idle"]
       /\ ncalls = [r \in Ranks |-> 0]
       /\ lambda_p = [r \in Ranks |-> 0]
       /\ r_p = [r \in Ranks |-> <<0, 0, 0>>]
       /\ lambda = [r \in Ranks |-> <<>>]
       /\ old_gridpoints = [r \in Ranks |-> <<>>]
       /\ post_lambda = [r \in Ranks |-> 0]
       /\ post_r = [r \in Ranks |-> <<0, 0, 0>>]
       /\ post_gridpoint = [r \in Ranks |-> <<0, 0, 0>>]
       /\ post_nconflicts = [r \in Ranks |-> 0]
       /\ post_octagons = [r \in Ranks |-> <<0, 0, 0>>]
       /\ result = [r \in Ranks |-> "none"]
       /\ callbacks = [r \in Ranks |-> 0]
       /\ pre = [r \in Ranks |-> Snapshot(r)]

Init == Construct(ProcessGrid)

(***************************************************************************)
(* repartition: the local computations                                     *)
(***************************************************************************)
RECURSIVE SumTo(_, _, _, _)
\* the elements lo .. hi of v added to acc one after the other from the left
SumTo(v, lo, hi, acc) ==
  IF lo > hi THEN acc
  ELSE IF lo = hi THEN FAdd(acc, v[lo])
  ELSE Bind(SumTo(v, lo, (lo + hi) \div 2, acc),
            LAMBDA nx : SumTo(v, ((lo + hi) \div 2) + 1, hi, nx))
\* std::accumulate(begin, end, 0.0)
SeqSum(v) == Bind(Vector(v), LAMBDA w : SumTo(w, 1, Len(w), 0))

\* center_of_load() when the particle store holds no particle: the mean of
\* the midpoints of the local cells (0/0 when there is none)
center_of_load(cells_, nlocal) ==
  [d \in Axes |-> Quot(SeqSum([i \in 1 .. nlocal |-> midpoint(cells_[i])[d]]), nlocal)]

\* mu * f_i[d] in units: f_i = (lambda_hat_i - 1) * u_i / len with
\* lambda_hat_i = lambda_i / (sum / nneigh) and u_i = r_i - gridpoint.
\* lam is the gathered vector lambda, ri the gathered r_i, muk / MuDen is mu
Force(muk, lam, i, ri, gp, d) ==
  Bind(Len(lam), LAMBDA nneigh :
  Bind(SeqSum(lam), LAMBDA sum :
  Bind(Vec3([e \in Axes |-> FSub(ri[e], gp[e])]), LAMBDA u :
  Bind(norm2(u), LAMBDA len :
      IF IsNaN(len) \/ IsNaN(sum) THEN NaN
      ELSE Quot(muk * (lam[i] * nneigh - sum) * u[d] * One, MuDen * sum * len)))))

RECURSIVE ForceSum(_, _, _, _, _, _)
\* the inner loop "new_c[d] += mu * r[3 * i + d]" from neighbour i on
ForceSum(muk, lam, rs, gp, d, i) ==
  IF i > Len(lam) THEN 0
  ELSE FAdd(Force(muk, lam, i, rs[i], gp, d), ForceSum(muk, lam, rs, gp, d, i + 1))

\* no coordinate is on the upper boundary
NeverPinned(me, d) == FALSE
\* coords[d] == dims[d] - 1
IsPinned(me, d) == CartCoords(me)[d] = Dims[d] - 1

\* new_c: only the coordinates that are not on the upper boundary are shifted
NewGridpoint(me, muk, lam, rs, gp) ==
  [d \in Axes |->
     IF IsPinned(me, d) THEN gp[d]
     ELSE FAdd(gp[d], ForceSum(muk, lam, rs, gp, d, 1))]

\* the pairs of corners closer than min_cell_size only
CountConflictsOneCell(me, gps) ==
  Bind(bounding_box(me, gps), LAMBDA bb :
    Cardinality({p \in (1 .. 8) \X (1 .. 8) :
                   p[1] < p[2] /\ FLess(dist2(bb[p[1]], bb[p[2]]), CS)}))

\* the number of pairs of corners of bounding_box(this_node) closer than
\* 2 * min_cell_size
CountConflicts(me, gps) ==
  Bind(bounding_box(me, gps), LAMBDA bb :
    Cardinality({p \in (1 .. 8) \X (1 .. 8) :
                   p[1] < p[2] /\ FLess(dist2(bb[p[1]], bb[p[2]]), 2 * CS)}))

(***************************************************************************)
(* The collectives                                                         *)
(***************************************************************************)
\* the position of a rank in repartition(): the collective it is blocked in
\*   "idle"     not in repartition()
\*   "lambda"   MPI_Neighbor_allgather of lambda_p
\*   "r"        MPI_Neighbor_allgather of r_p
\*   "gather"   all_gather of gridpoint
\*   "reduce"   MPI_Allreduce of nconflicts
\*   "octagons" all_gather of gridpoint in init_octagons
\*   "callback" exchange_start_callback()
\*   "failed"   an exception left repartition()
PhaseOf(p) ==
  CASE p = "lambda" -> 1 [] p = "r" -> 2 [] p = "gather" -> 3
    [] p = "reduce" -> 4 [] p = "octagons" -> 5 [] p = "callback" -> 6 [] p = "idle" -> 6
    [] p = "failed" -> 6

\* rank q has posted its part of collective number k of its call number n;
\* a call that returned false has not entered the all_gather of init_octagons
Posted(q, n, k) ==
  \/ ncalls[q] > n
  \/ ncalls[q] = n /\ PhaseOf(pc[q]) >= k
       /\ ~(k = 5 /\ pc[q] = "idle" /\ result[q] = "false")

\* a collective over comm_cart completes when every rank has posted
AllPosted(n, k) == \A q \in Ranks : Posted(q, n, k)
\* a collective over neighcomm completes when every source has posted
SourcesPosted(r, k) ==
  \A i \in 1 .. Len(neighcomm[r].sources) : Posted(neighcomm[r].sources[i], ncalls[r], k)

(***************************************************************************)
(* repartition(m, exchange_start_callback) on rank r, one action for every *)
(* stretch of code between two collectives                                 *)
(***************************************************************************)
\* the locals of a call that has returned
NoLocals(r) ==
  /\ lambda_p' = [lambda_p EXCEPT ![r] = 0]
  /\ r_p' = [r_p EXCEPT ![r] = <<0, 0, 0>>]
  /\ lambda' = [lambda EXCEPT ![r] = <<>>]
  /\ old_gridpoints' = [old_gridpoints EXCEPT ![r] = <<>>]

\* the call, up to the first MPI_Neighbor_allgather; w is the sum of the
\* weights the metric m() returns
Call(r, w) ==
  /\ pc[r] = "idle"
  /\ ncalls[r] < MaxCalls
  /\ ncalls' = [ncalls EXCEPT ![r] = @ + 1]
  /\ pre' = [pre EXCEPT ![r] = Snapshot(r)]
  /\ result' = [result EXCEPT ![r] = "none"]
  /\ callbacks' = [callbacks EXCEPT ![r] = 0]
  /\ lambda_p' = [lambda_p EXCEPT ![r] = w]
  /\ r_p' = [r_p EXCEPT ![r] = center_of_load(cells[r], nlocalcells[r])]
  /\ post_lambda' = [post_lambda EXCEPT ![r] = w]
  /\ pc' = [pc EXCEPT ![r] = "lambda"]
  /\ UNCHANGED << fields, lambda, old_gridpoints,
                  post_r, post_gridpoint, post_nconflicts, post_octagons >>

\* lambda is gathered; up to the second MPI_Neighbor_allgather
RecvLambda(r) ==
  /\ pc[r] = "lambda"
  /\ SourcesPosted(r, 1)
  /\ lambda' = [lambda EXCEPT ![r] =
        [i \in 1 .. undirected_neighbor_count(neighcomm[r]) |->
           post_lambda[neighcomm[r].sources[i]]]]
  /\ post_r' = [post_r EXCEPT ![r] = r_p[r]]
  /\ pc' = [pc EXCEPT ![r] = "r"]
  /\ UNCHANGED << fields, ncalls, lambda_p, r_p, old_gridpoints,
                  post_lambda, post_gridpoint, post_nconflicts, post_octagons,
                  result, callbacks, pre >>

\* r is gathered; the new grid point is computed; up to the all_gather
RecvR(r) ==
  /\ pc[r] = "r"
  /\ SourcesPosted(r, 2)
  /\ \E rs \in {Vector([i \in 1 .. Len(lambda[r]) |-> post_r[neighcomm[r].sources[i]]])} :
     \E new_c \in {Vec3(NewGridpoint(r, mu[r], lambda[r], rs, gridpoint[r]))} :
         /\ gridpoint' = [gridpoint EXCEPT ![r] = new_c]
         /\ post_gridpoint' = [post_gridpoint EXCEPT ![r] = new_c]
  /\ old_gridpoints' = [old_gridpoints EXCEPT ![r] = gridpoints[r]]
  /\ gridpoints' = [gridpoints EXCEPT ![r] = <<>>]
  /\ pc' = [pc EXCEPT ![r] = "gather"]
  /\ UNCHANGED << mu, is_regular_grid, my_dom, neighbor_doms, neighbor_idx, topology,
                  decomposition, ncalls, lambda_p, r_p, lambda,
                  post_lambda, post_r, post_nconflicts, post_octagons,
                  result, callbacks, pre >>

\* gridpoints is gathered; the conflicts are counted; up to MPI_Allreduce
Gathered(r) ==
  /\ pc[r] = "gather"
  /\ AllPosted(ncalls[r], 3)
  /\ \E gps \in {PerRank([q \in Ranks |-> post_gridpoint[q]])} :
         /\ gridpoints' = [gridpoints EXCEPT ![r] = gps]
         /\ post_nconflicts' = [post_nconflicts EXCEPT ![r] = CountConflicts(r, gps)]
  /\ pc' = [pc EXCEPT ![r] = "reduce"]
  /\ UNCHANGED << mu, gridpoint, is_regular_grid, my_dom, neighbor_doms, neighbor_idx,
                  topology, decomposition, ncalls, locals,
                  post_lambda, post_r, post_gridpoint, post_octagons,
                  result, callbacks, pre >>

\* the local count as the result: the MPI_Allreduce left out
LocalConflicts(r) == post_nconflicts[r]
\* nconflicts on rank r after MPI_Allreduce(MPI_IN_PLACE, MPI_SUM)
SumConflicts(r) == SeqSum([i \in 1 .. n_nodes |-> post_nconflicts[i - 1]])

\* gridpoint is not restored
KeptGridpoint(r) == gridpoint[r]
\* gridpoint = gridpoints[this_node] after gridpoints = old_gridpoints
RolledBackGridpoint(r) == old_gridpoints[r][r]

\* the update is rejected on the count of this rank alone, before
\* MPI_Allreduce has summed the counts
RejectOnLocalCount(r) ==
  /\ pc[r] = "reduce"
  /\ LocalConflicts(r) > 0
  /\ gridpoints' = [gridpoints EXCEPT ![r] = old_gridpoints[r]]
  /\ gridpoint' = [gridpoint EXCEPT ![r] = RolledBackGridpoint(r)]
  /\ result' = [result EXCEPT ![r] = "false"]
  /\ pc' = [pc EXCEPT ![r] = "idle"]
  /\ NoLocals(r)
  /\ UNCHANGED << mu, is_regular_grid, my_dom, neighbor_doms, neighbor_idx, topology,
                  decomposition, ncalls, posts, callbacks, pre >>

\* nconflicts > 0: the update is rejected
Reject(r) ==
  /\ pc[r] = "reduce"
  /\ AllPosted(ncalls[r], 4)
  /\ SumConflicts(r) > 0
  /\ gridpoints' = [gridpoints EXCEPT ![r] = old_gridpoints[r]]
  /\ gridpoint' = [gridpoint EXCEPT ![r] = RolledBackGridpoint(r)]
  /\ result' = [result EXCEPT ![r] = "false"]
  /\ pc' = [pc EXCEPT ![r] = "idle"]
  /\ NoLocals(r)
  /\ UNCHANGED << mu, is_regular_grid, my_dom, neighbor_doms, neighbor_idx, topology,
                  decomposition, ncalls, posts, callbacks, pre >>

\* nconflicts = 0: up to the all_gather of init_octagons
Accept(r) ==
  /\ pc[r] = "reduce"
  /\ AllPosted(ncalls[r], 4)
  /\ SumConflicts(r) = 0
  /\ is_regular_grid' = [is_regular_grid EXCEPT ![r] = FALSE]
  /\ post_octagons' = [post_octagons EXCEPT ![r] = gridpoint[r]]
  /\ pc' = [pc EXCEPT ![r] = "octagons"]
  /\ UNCHANGED << mu, gridpoint, gridpoints, my_dom, neighbor_doms, neighbor_idx, topology,
                  decomposition, ncalls, locals,
                  post_lambda, post_r, post_gridpoint, post_nconflicts,
                  result, callbacks, pre >>

\* exchange_start_callback() invoked with the octagons of the last call
CallbackBeforeOctagons(r) ==
  /\ pc[r] = "octagons"
  /\ AllPosted(ncalls[r], 5)
  /\ callbacks' = [callbacks EXCEPT ![r] = @ + 1]
  /\ pc' = [pc EXCEPT ![r] = "callback"]
  /\ UNCHANGED << fields, ncalls, locals, posts, result, pre >>

\* the rest of init_octagons, up to the call of exchange_start_callback()
Callback(r) ==
  /\ pc[r] = "octagons"
  /\ AllPosted(ncalls[r], 5)
  /\ \E gps \in {[q \in Ranks |-> post_octagons[q]]} :
     \E oc \in {init_octagons(r, gps, neighbor_ranks[r])} :
         /\ gridpoints' = [gridpoints EXCEPT ![r] = gps]
         /\ my_dom' = [my_dom EXCEPT ![r] = oc.my_dom]
         /\ neighbor_doms' = [neighbor_doms EXCEPT ![r] = oc.neighbor_doms]
  /\ callbacks' = [callbacks EXCEPT ![r] = @ + 1]
  /\ pc' = [pc EXCEPT ![r] = "callback"]
  /\ UNCHANGED << mu, gridpoint, is_regular_grid, neighbor_idx, topology, decomposition,
                  ncalls, locals, posts, result, pre >>

\* exchange_start_callback() has returned: reinit and the return of true
Commit(r) ==
  /\ pc[r] = "callback"
  /\ \E g \in {Grid(r)} :
     \E st \in {reinit(r, g)} :
         /\ nlocalcells' = [nlocalcells EXCEPT ![r] = st.nlocalcells]
         /\ nghostcells' = [nghostcells EXCEPT ![r] = st.nghostcells]
         /\ cells' = [cells EXCEPT ![r] = st.cells]
         /\ global_to_local' = [global_to_local EXCEPT ![r] = st.global_to_local]
         /\ exchange_vec' = [exchange_vec EXCEPT ![r] = st.exchange_vec]
         /\ neighbor_idx' = [neighbor_idx EXCEPT ![r] = st.neighbor_idx]
         /\ result' = [result EXCEPT ![r] = IF st.thrown THEN "none" ELSE "true"]
         /\ pc' = [pc EXCEPT ![r] = IF st.thrown THEN "failed" ELSE "idle"]
  /\ NoLocals(r)
  /\ UNCHANGED << mu, gridpoint, gridpoints, is_regular_grid, my_dom, neighbor_doms,
                  topology, ncalls, posts, callbacks, pre >>

(***************************************************************************)
(* command(s) on rank r                                                    *)
(*                                                                         *)
(* A std::string is the sequence of its characters.                       *)
(***************************************************************************)
\* \s, \d and . of an ECMAScript regular expression
IsSpace(c) == c \in {" ", "\t", "\n", "\r", "\f"}
IsDigit(c) == c \in {"0", "1", "2", "3", "4", "5", "6", "7", "8", "9"}
AnyChar(c) == c \notin {"\n", "\r"}
\* \d+ on s[lo .. hi]
AllDigits(s, lo, hi) == lo <= hi /\ \A j \in lo .. hi : IsDigit(s[j])

RECURSIVE SkipSpaces(_, _)
\* \s* from position i: the position of the first character that is no space
SkipSpaces(s, i) == IF i <= Len(s) /\ IsSpace(s[i]) THEN SkipSpaces(s, i + 1) ELSE i

\* \s*mu\s*=\s* from the start of s: the position after it, 0 without a match
AfterMuEquals(s) ==
  LET i1 == SkipSpaces(s, 1)
      i2 == SkipSpaces(s, i1 + 2)
  IN  IF i1 + 1 <= Len(s) /\ s[i1] = "m" /\ s[i1 + 1] = "u" /\ i2 <= Len(s) /\ s[i2] = "="
      THEN SkipSpaces(s, i2 + 1) ELSE 0

\* (\d+\.|\.\d+|\d+.\d+) on the whole of g; the dot of the third alternative
\* is not escaped
FloatGroup(g) ==
  \/ Len(g) >= 2 /\ g[Len(g)] = "." /\ AllDigits(g, 1, Len(g) - 1)
  \/ Len(g) >= 2 /\ g[1] = "." /\ AllDigits(g, 2, Len(g))
  \/ \E k \in 2 .. (Len(g) - 1) :
       AnyChar(g[k]) /\ AllDigits(g, 1, k - 1) /\ AllDigits(g, k + 1, Len(g))

NoMatch == << >>
\* std::regex_match(s, m, mure): m[1], or NoMatch
mure(s) ==
  LET i == AfterMuEquals(s)
      g == SubSeq(s, i, Len(s))
  IN  IF i > 0 /\ FloatGroup(g) THEN g ELSE NoMatch

DigitValue(c) ==
  CASE c = "0" -> 0 [] c = "1" -> 1 [] c = "2" -> 2 [] c = "3" -> 3 [] c = "4" -> 4
    [] c = "5" -> 5 [] c = "6" -> 6 [] c = "7" -> 7 [] c = "8" -> 8 [] c = "9" -> 9
RECURSIVE NumberValue(_, _, _, _)
\* the digits s[lo .. hi] read in the given base
NumberValue(s, lo, hi, base) ==
  IF lo > hi THEN 0 ELSE NumberValue(s, lo, hi - 1, base) * base + DigitValue(s[hi])
RECURSIVE Pow10(_)
Pow10(n) == IF n = 0 THEN 1 ELSE 10 * Pow10(n - 1)
RECURSIVE DigitsFrom(_, _)
\* the number of digits of s from position i on
DigitsFrom(s, i) == IF i <= Len(s) /\ IsDigit(s[i]) THEN 1 + DigitsFrom(s, i + 1) ELSE 0

\* std::strtod(g, NULL) of a string that begins with a digit or a dot, in
\* units of 1 / MuDen: the longest prefix that is a number is converted, a
\* hexadecimal number after 0x, a decimal number with its fraction and its
\* exponent otherwise
strtod(g) ==
  LET n == DigitsFrom(g, 1)
      f == DigitsFrom(g, n + 2)
      whole == NumberValue(g, 1, n, 10)
  IN  IF n = 1 /\ g[1] = "0" /\ Len(g) >= 3 /\ g[2] \in {"x", "X"} /\ IsDigit(g[3])
      THEN NumberValue(g, 3, 2 + DigitsFrom(g, 3), 16) * MuDen
      ELSE IF n < Len(g) /\ g[n + 1] = "."
      THEN whole * MuDen + (NumberValue(g, n + 2, n + 1 + f, 10) * MuDen) \div Pow10(f)
      ELSE IF n >= 1 /\ n < Len(g) /\ g[n + 1] \in {"e", "E"} /\ f >= 1
      THEN whole * Pow10(NumberValue(g, n + 2, n + 1 + f, 10)) * MuDen
      ELSE whole * MuDen

\* the value of mu after command(s), m is the value before
command(m, s) == IF mure(s) # NoMatch THEN strtod(mure(s)) ELSE m

\* the strings command() is given between the calls of repartition():
\* "mu = .5", "mu = 4." and "mu = 4"
Commands ==
  { << "m", "u", " ", "=", " ", ".", "5" >>,
    << "m", "u", " ", "=", " ", "4", "." >>,
    << "m", "u", " ", "=", " ", "4" >> }

Command(r, s) ==
  /\ pc[r] = "idle"
  /\ mu' = [mu EXCEPT ![r] = command(mu[r], s)]
  /\ UNCHANGED << gridpoint, gridpoints, is_regular_grid, my_dom, neighbor_doms,
                  neighbor_idx, topology, decomposition,
                  pc, ncalls, locals, posts, result, callbacks, pre >>

Next ==
  \/ \E r \in Ranks, w \in Loads : Call(r, w)
  \/ \E r \in Ranks : RecvLambda(r)
  \/ \E r \in Ranks : RecvR(r)
  \/ \E r \in Ranks : Gathered(r)
  \/ \E r \in Ranks : Reject(r)
  \/ \E r \in Ranks : Accept(r)
  \/ \E r \in Ranks : Callback(r)
  \/ \E r \in Ranks : Commit(r)
  \/ \E r \in Ranks, s \in Commands : Command(r, s)

Spec == Init /\ [][Next]_vars

\* a rank inside repartition() goes on when the collective it is blocked in
\* completes: MPI makes progress once every participant has joined
Progress(r) ==
  \/ RecvLambda(r) \/ RecvR(r) \/ Gathered(r)
  \/ Reject(r) \/ Accept(r) \/ Callback(r) \/ Commit(r)

\* the program with ranks that run: whether and when repartition() and
\* command() are called is up to the caller
FairSpec == Spec /\ \A r \in NodesOf(ProcessGrid) : WF_vars(Progress(r))

(***************************************************************************)
(* init_neighbors on process grids of every shape                          *)
(***************************************************************************)
\* the process grids: at most MaxDim ranks per axis, at most MaxNodes ranks
MaxDim == 4
MaxNodes == 9
NodeGrids ==
  {g \in (1 .. MaxDim) \X (1 .. MaxDim) \X (1 .. MaxDim) : g[1] * g[2] * g[3] <= MaxNodes}
\* neighcomm before init_neighbors has built it
MPI_COMM_NULL == [sources |-> << >>, dests |-> << >>]

\* the objects after the member initialisers of the constructor, before
\* init_partitioning(): mu is 1.0 and neighcomm is MPI_COMM_NULL
NeighInit ==
  /\ node_grid \in NodeGrids
  /\ mu = [r \in NodesOf(node_grid) |-> MuDen]
  /\ neighbor_ranks = [r \in NodesOf(node_grid) |-> << >>]
  /\ neighbor_idx = [r \in NodesOf(node_grid) |-> EmptyMap]
  /\ neighcomm = [r \in NodesOf(node_grid) |-> MPI_COMM_NULL]
  /\ gridpoint = << >> /\ gridpoints = << >> /\ is_regular_grid = << >>
  /\ my_dom = << >> /\ neighbor_doms = << >>
  /\ nlocalcells = << >> /\ nghostcells = << >> /\ cells = << >>
  /\ global_to_local = << >> /\ exchange_vec = << >>
  /\ pc = << >> /\ ncalls = << >>
  /\ lambda_p = << >> /\ r_p = << >> /\ lambda = << >> /\ old_gridpoints = << >>
  /\ post_lambda = << >> /\ post_r = << >> /\ post_gridpoint = << >>
  /\ post_nconflicts = << >> /\ post_octagons = << >>
  /\ result = << >> /\ callbacks = << >> /\ pre = << >>

\* rank r runs init_neighbors()
InitNeighbors(r) ==
  /\ neighcomm[r] = MPI_COMM_NULL
  /\ \E nb \in {init_neighbors(node_grid, r)} :
       /\ neighbor_ranks' = [neighbor_ranks EXCEPT ![r] = nb.neighbor_ranks]
       /\ neighbor_idx' = [neighbor_idx EXCEPT ![r] = nb.neighbor_idx]
       /\ neighcomm' = [neighcomm EXCEPT ![r] = nb.neighcomm]
  /\ UNCHANGED << node_grid, mu, gridpoint, gridpoints, is_regular_grid, my_dom,
                  neighbor_doms, decomposition, pc, ncalls, locals, posts,
                  result, callbacks, pre >>

NeighNext == \E r \in NodesOf(node_grid) : InitNeighbors(r)

NeighSpec == NeighInit /\ [][NeighNext]_vars

(***************************************************************************)
(* command on many strings                                                 *)
(***************************************************************************)
\* what the strings begin with
Prefixes ==
  { << "m", "u", "=" >>,
    << " ", "m", "u", " ", "=", " " >>,
    << "m", "u", " ", "=" >>,
    << "m", "u", "=", "=" >>,
    << "m", " ", "u", "=" >>,
    << "x", "m", "u", "=" >>,
    << "n", "u", "=" >>,
    << "m", "u" >>,
    << >> }
\* what follows: every string of at most MaxBody of these characters
BodyChars == {"0", "5", ".", " ", "x"}
MaxBody == 3
Bodies == UNION {[1 .. k -> BodyChars] : k \in 0 .. MaxBody}
Strings == {p \o b : p \in Prefixes, b \in Bodies}

\* command() is called with any of the strings, on the objects as constructed
CommandNext == \E r \in Ranks, s \in Strings : Command(r, s)

CommandSpec == Init /\ [][CommandNext]_vars

(***************************************************************************)
(* Properties                                                              *)
(***************************************************************************)
\* rank r is not inside repartition()
Returned(r) == pc[r] = "idle"
\* every rank has returned from the same number of collective calls
Quiescent == \A r \in Ranks : Returned(r) /\ ncalls[r] = ncalls[0]
\* the table of candidate grid points that was gathered in the last call
Candidates == [q \in Ranks |-> post_gridpoint[q]]
\* the global indices of the local cells of rank r
LocalSet(r) == {cells[r][i] : i \in 1 .. nlocalcells[r]}
\* the global indices of the ghost cells of rank r
GhostSeq(r) == [i \in 1 .. nghostcells[r] |-> cells[r][nlocalcells[r] + i]]
\* a list of local indices of rank r as global indices
Global(r, v) == [k \in 1 .. Len(v) |-> cells[r][v[k] + 1]]

C2_RollbackRestores ==
  \A r \in Ranks :
    (Returned(r) /\ result[r] = "false") => (Snapshot(r) = pre[r] /\ callbacks[r] = 0)

\* a call whose candidate grid point differed from the old one returned false
C2_Witness ==
  \E r \in Ranks :
    /\ Returned(r) /\ result[r] = "false"
    /\ post_gridpoint[r] # gridpoint[r]
    /\ ~is_regular_grid[r]

\* the ranks on which the global cell g is a local cell
Owners(g) == {r \in Ranks : g \in LocalSet(r)}
\* the number of local cells over all ranks
TotalLocalCells == SeqSum([i \in 1 .. n_nodes |-> nlocalcells[i - 1]])

\* C3: between collective calls every global cell is a local cell of
\* exactly one rank, and the local cell counts of the ranks add up to the
\* number of cells of the global grid.
C3_Coverage ==
  Quiescent =>
    /\ \A g \in Cells : Cardinality(Owners(g)) = 1
    /\ TotalLocalCells = ncells

\* the exchange entry e of rank r has its mirror image on rank e.dest
Paired(r, e) ==
  \E k \in 1 .. Len(exchange_vec[e.dest]) :
    LET f == exchange_vec[e.dest][k]
    IN /\ f.dest = r
       /\ Global(r, e.recv) = Global(e.dest, f.send)
       /\ Global(r, e.send) = Global(e.dest, f.recv)

StrictlyAscending(v) == \A k \in 1 .. (Len(v) - 1) : v[k] < v[k + 1]
\* reinit() on the present state of rank r rebuilds what rank r holds
Rebuilt(r) ==
  \E g \in {Grid(r)} : \E st \in {reinit(r, g)} :
      /\ st.cells = cells[r]
      /\ st.global_to_local = global_to_local[r]
      /\ st.exchange_vec = exchange_vec[r]

C6_IndexMap ==
  \A r \in Ranks :
    LET m == global_to_local[r]
        n == nlocalcells[r] + nghostcells[r]
    IN  /\ Len(cells[r]) = n
        /\ DOMAIN m = {cells[r][i] : i \in 1 .. n}
        /\ {m[g] : g \in DOMAIN m} = 0 .. (n - 1)
        /\ Cardinality(DOMAIN m) = n
        /\ \A g \in DOMAIN m : cells[r][m[g] + 1] = g
        /\ pc[r] # "callback" =>
             \A g \in Cells :
               Contains(my_dom[r], midpoint(g)) <=> (g \in DOMAIN m /\ m[g] < nlocalcells[r])
        /\ \A i \in 1 .. nghostcells[r] : m[GhostSeq(r)[i]] = nlocalcells[r] + i - 1

\* an accepted repartition gave a rank more local cells than it had, and
\* ghost cells
C6_Witness ==
  \E r \in Ranks :
    /\ Returned(r) /\ result[r] = "true"
    /\ nlocalcells[r] > pre[r].nlocalcells
    /\ nghostcells[r] > 0

\* the cell that the loop of reinit over the shells of the local cells of
\* rank r meets in its step number j
NeighAt(r, j) == ShellOf[cells[r][((j - 1) \div 26) + 1]][((j - 1) % 26) + 1]
\* the cells met by that loop
Shells(r) == {NeighAt(r, j) : j \in 1 .. (26 * nlocalcells[r])}
\* the first step of that loop that meets the cell g
FirstSeen(r, g) ==
  CHOOSE j \in 1 .. (26 * nlocalcells[r]) :
    NeighAt(r, j) = g /\ \A i \in 1 .. (j - 1) : NeighAt(r, i) # g

\* C7: the ghost part of cells holds exactly the global cells that are not
\* local to the rank and are one of the 26 neighbours of a local cell, each
\* of them once, in the order in which the loop over the local cells and
\* their shells meets them first.
C7_GhostLayer ==
  \A r \in Ranks :
    LET gs == GhostSeq(r)
    IN  /\ {gs[i] : i \in 1 .. Len(gs)} = Shells(r) \ LocalSet(r)
        /\ \A i \in 1 .. Len(gs), j \in 1 .. Len(gs) : i # j => gs[i] # gs[j]
        /\ \A i \in 1 .. (Len(gs) - 1) : FirstSeen(r, gs[i]) < FirstSeen(r, gs[i + 1])

\* an accepted repartition left a rank with local cells of which some
\* neighbours are local and some are not
C7_Witness ==
  \E r \in Ranks :
    /\ Returned(r) /\ result[r] = "true" /\ gridpoint[r] # InitialGridpoint(r)
    /\ nghostcells[r] > 1
    /\ Shells(r) \cap LocalSet(r) # {}

\* C8: in every exchange entry the send list holds indices of local cells
\* and the recv list holds indices of ghost cells, on the regular grid as on
\* a deformed one.
C8_SendLocalRecvGhost ==
  \A r \in Ranks : \A k \in 1 .. Len(exchange_vec[r]) :
    LET e == exchange_vec[r][k]
    IN  /\ \A j \in 1 .. Len(e.send) : 0 <= e.send[j] /\ e.send[j] < nlocalcells[r]
        /\ \A j \in 1 .. Len(e.recv) :
             nlocalcells[r] <= e.recv[j] /\ e.recv[j] < nlocalcells[r] + nghostcells[r]

\* a rank on a deformed grid has a cell to send and a cell to receive
C8_Witness ==
  \E r \in Ranks :
    /\ Returned(r) /\ ~is_regular_grid[r] /\ gridpoint[r] # InitialGridpoint(r)
    /\ \E k \in 1 .. Len(exchange_vec[r]) :
         exchange_vec[r][k].send # <<>> /\ exchange_vec[r][k].recv # <<>>

\* C9: after construction and after every repartition every rank has at
\* least one local cell.
C9_LocalCellsExist == \A r \in Ranks : nlocalcells[r] >= 1

\* every rank passed the same summed load to the last collective call
UniformLoad == \A q \in Ranks : post_lambda[q] = post_lambda[0]

\* C10: a collective call of repartition() in which every rank has the same
\* summed load, whatever its value, returns true and leaves gridpoint,
\* gridpoints and the decomposition of every rank as they were.
C10_UniformLoadFixpoint ==
  (Quiescent /\ ncalls[0] >= 1 /\ UniformLoad) =>
    \A r \in Ranks :
      /\ result[r] = "true"
      /\ gridpoint[r] = pre[r].gridpoint
      /\ gridpoints[r] = pre[r].gridpoints
      /\ nlocalcells[r] = pre[r].nlocalcells
      /\ nghostcells[r] = pre[r].nghostcells
      /\ cells[r] = pre[r].cells
      /\ global_to_local[r] = pre[r].global_to_local
      /\ exchange_vec[r] = pre[r].exchange_vec

\* rank r is the last one of the process grid on the axis d
OnUpperBoundary(r, d) == CartCoords(r)[d] = Dims[d] - 1

\* C11: on every axis on which the Cartesian coordinate of a rank is the
\* last one, the grid point of the rank has the coordinate box_l[d] in every
\* state: repartition() never moves it, whatever the loads and mu.
C11_Pinning ==
  \A r \in Ranks : \A d \in Axes :
    OnUpperBoundary(r, d) => gridpoint[r][d] = box_l[d]

\* an accepted repartition moved the coordinate of a rank that is not pinned
\* and left the pinned ones
C11_Witness ==
  \E r \in Ranks : \E d \in Axes :
    /\ Returned(r) /\ result[r] = "true"
    /\ ~OnUpperBoundary(r, d)
    /\ gridpoint[r][d] # pre[r].gridpoint[d]
    /\ \E e \in Axes : OnUpperBoundary(r, e)

\* the cell g has exactly one owner
OwnedOnce(g) == Cardinality(Owners(g)) = 1

\* C12: between collective calls, for every global cell g, on every rank,
\* position_to_rank(midpoint(g)) is the one rank that has g among its local
\* cells, and on that rank position_to_cell_index(midpoint(g)) is an index
\* i < nlocalcells with cells[i] = g.
C12_RoundTrip ==
  Quiescent =>
    \A g \in Cells : \A r \in Ranks :
      /\ Owners(g) = {PositionToRank(r, midpoint(g))}
      /\ \A o \in Owners(g) :
           /\ position_to_cell_index(o, midpoint(g)) < n_local_cells(o)
           /\ cells[o][position_to_cell_index(o, midpoint(g)) + 1] = g

\* C13: position_to_cell_index on a rank that is not inside repartition()
\* returns an index below nlocalcells for a position in a local cell, and
\* fails for every position in a cell that is not local on the rank, the
\* cells of the ghost layer included: it never returns an index >= nlocalcells.
C13_NeverGhostIndex ==
  \A r \in Ranks : \A g \in Cells :
    Returned(r) =>
      IF g \in LocalSet(r)
      THEN position_to_cell_index(r, midpoint(g)) \in 0 .. (n_local_cells(r) - 1)
      ELSE position_to_cell_index(r, midpoint(g)) = NotLocal

\* the owner position_to_rank names on rank r for the cell g is in the
\* neighbour list of r
OwnerIsNeighbor(r, g) == InSeq(neighbor_ranks[r], PositionToRank(r, midpoint(g)))

C15_CommitOrdering ==
  \A r \in Ranks :
    /\ pc[r] = "callback" =>
         /\ callbacks[r] = 1
         /\ gridpoints[r] = [q \in Ranks |-> post_octagons[q]]
         /\ gridpoints[r][r] = gridpoint[r]
         /\ my_dom[r] = Octagon(bounding_box(r, gridpoints[r]))
         /\ \A j \in 1 .. n_neighbors(r) :
              neighbor_doms[r][j] = Octagon(bounding_box(neighbor_rank(r, j - 1), gridpoints[r]))
         /\ cells[r] = pre[r].cells
         /\ global_to_local[r] = pre[r].global_to_local
         /\ exchange_vec[r] = pre[r].exchange_vec
         /\ nlocalcells[r] = pre[r].nlocalcells
         /\ nghostcells[r] = pre[r].nghostcells
    /\ (Returned(r) /\ result[r] = "true") => callbacks[r] = 1
    /\ (Returned(r) /\ result[r] = "false") => callbacks[r] = 0

\* a rank is in the callback with octagons that differ from those of the
\* start of the call
C15_Witness ==
  \E r \in Ranks :
    /\ pc[r] = "callback"
    /\ my_dom[r] # pre[r].my_dom
    /\ gridpoints[r] # pre[r].gridpoints

\* the step of rank r that accepts the gathered grid points
AcceptStep(r) == pc[r] = "reduce" /\ pc'[r] = "octagons"
\* the grid points gathered in the call differ from those before it
SomeGridpointMoved(r) == gridpoints[r] # old_gridpoints[r]

\* is_regular_grid is cleared only by an accepted repartition, is never set
\* again, and every accepted repartition that moved a grid point clears it
C16_FlagMonotone ==
  [][\A r \in Ranks :
       /\ ~is_regular_grid[r] => ~is_regular_grid'[r]
       /\ (is_regular_grid[r] /\ ~is_regular_grid'[r]) => AcceptStep(r)
       /\ (AcceptStep(r) /\ SomeGridpointMoved(r)) => ~is_regular_grid'[r]]_vars

\* C16: is_regular_grid is true after construction, stays true across
\* rejected repartitions and across accepted ones that move no grid point,
\* becomes false at the first accepted repartition that moves a grid point,
\* and is never true again.
C16_RegularFlag ==
  [][\A r \in Ranks :
       /\ ~is_regular_grid[r] => ~is_regular_grid'[r]
       /\ (is_regular_grid[r] /\ ~is_regular_grid'[r]) =>
            (AcceptStep(r) /\ SomeGridpointMoved(r))
       /\ (AcceptStep(r) /\ SomeGridpointMoved(r)) => ~is_regular_grid'[r]]_vars

\* rank r has run init_neighbors()
NeighborsBuilt(r) == neighcomm[r] # MPI_COMM_NULL
\* the rank at offset off of rank r on the periodic process grid dims
PeriodicRank(dims, r, off) ==
  linearize([d \in Axes |-> (unlinearize(r, dims)[d] + off[d] + dims[d]) % dims[d]], dims)
\* the ranks at the offsets {-1,0,1}^3 of rank r, r itself left out
OffsetRanks(dims, r) ==
  {PeriodicRank(dims, r, NeighborOffsets[k]) : k \in 1 .. 27} \ {r}
\* the ranks in the neighbor list of rank r
NeighborSet(r) == {neighbor_ranks[r][i] : i \in 1 .. Len(neighbor_ranks[r])}

\* C17: on every process grid, the neighbor list init_neighbors builds holds
\* exactly the ranks at the offsets {-1,0,1}^3 (periodic) other than the rank
\* itself, each once; neighbor_idx is its inverse; and n_neighbors() is 0
\* exactly when there is a single rank
C17_NeighborList ==
  \A r \in NodesOf(node_grid) : NeighborsBuilt(r) =>
    /\ NeighborSet(r) = OffsetRanks(node_grid, r)
    /\ Cardinality(NeighborSet(r)) = Len(neighbor_ranks[r])
    /\ DOMAIN neighbor_idx[r] = NeighborSet(r)
    /\ \A i \in 0 .. (n_neighbors(r) - 1) : neighbor_idx[r][neighbor_rank(r, i)] = i
    /\ (n_neighbors(r) = 0 <=> Cardinality(NodesOf(node_grid)) = 1)
\* a rank of a grid of four by two ranks has built its list: the wrap along
\* the axes of one and two ranks reaches the same ranks several times, and two
\* ranks are no neighbors
C17_Witness ==
  /\ node_grid = << 4, 2, 1 >>
  /\ NeighborsBuilt(0)
  /\ n_neighbors(0) = 5
  /\ PeriodicRank(node_grid, 0, << 0, 1, 0 >>) = PeriodicRank(node_grid, 0, << 0, 0 - 1, 0 >>)

\* the directions of cell_neighbor_index
Directions == 0 .. 25
\* cell_neighbor_index(c, k) on rank r is an index of cells that holds the
\* neighbor of the local cell c in direction k
NeighborIndexed(r, c, k) ==
  LET i == cell_neighbor_index(r, c, k)
  IN  /\ i \in 0 .. (n_local_cells(r) + n_ghost_cells(r) - 1)
      /\ cells[r][i + 1] = neighbor(cells[r][c + 1], k)

\* C18: after every rebuild, cell_neighbor_index(c, k) of every local cell c
\* and every direction k is a local or ghost index i with
\* cells[i] = gbox.neighbor(cells[c], k)
C18_NeighborCells ==
  \A r \in Ranks : Returned(r) =>
    \A c \in 0 .. (n_local_cells(r) - 1) : \A k \in Directions : NeighborIndexed(r, c, k)

\* after an accepted repartition that moved the grid point of rank 0, a
\* local cell of rank 0 has a neighbor that is a ghost cell
C18_Witness ==
  /\ Returned(0) /\ result[0] = "true" /\ ~is_regular_grid[0]
  /\ gridpoint[0] # InitialGridpoint(0)
  /\ n_ghost_cells(0) > 0
  /\ \E c \in 0 .. (n_local_cells(0) - 1) : \E k \in Directions :
       /\ cell_neighbor_index(0, c, k) >= n_local_cells(0)
       /\ NeighborIndexed(0, c, k)

\* the decimal floats of the claim on the whole of g: digits '.', '.' digits
\* or digits '.' digits
DecimalFloat(g) ==
  \/ Len(g) >= 2 /\ g[Len(g)] = "." /\ AllDigits(g, 1, Len(g) - 1)
  \/ Len(g) >= 2 /\ g[1] = "." /\ AllDigits(g, 2, Len(g))
  \/ \E k \in 2 .. (Len(g) - 1) :
       g[k] = "." /\ AllDigits(g, 1, k - 1) /\ AllDigits(g, k + 1, Len(g))
\* the whole of s is whitespace* 'mu' whitespace* '=' whitespace* and a
\* decimal float
IsMuCommand(s) ==
  AfterMuEquals(s) > 0 /\ DecimalFloat(SubSeq(s, AfterMuEquals(s), Len(s)))
\* the value of the decimal float g in units of 1 / MuDen
FloatValue(g) ==
  LET n == DigitsFrom(g, 1)
      f == DigitsFrom(g, n + 2)
  IN  NumberValue(g, 1, n, 10) * MuDen
        + (NumberValue(g, n + 2, n + 1 + f, 10) * MuDen) \div Pow10(f)
\* command(s) on rank r does what the claim says of the string s
AsDocumented(r, s) ==
  IF IsMuCommand(s)
  THEN mu'[r] = FloatValue(SubSeq(s, AfterMuEquals(s), Len(s)))
  ELSE mu'[r] = mu[r]

\* C19: command(s) sets mu to the value of the float when the whole of s is
\* whitespace* 'mu' whitespace* '=' whitespace* and a decimal float (digits
\* '.', '.' digits or digits '.' digits), and leaves mu as it is for every
\* other string; it changes nothing but mu, and mu is 1.0 after construction
C19_Command ==
  /\ \A r \in Ranks : mu[r] = MuDen
  /\ [][\A r \in Ranks : \A s \in Strings : Command(r, s) =>
          /\ AsDocumented(r, s)
          /\ UNCHANGED << gridpoint, gridpoints, is_regular_grid, my_dom, neighbor_doms,
                          neighbor_idx, topology, decomposition,
                          pc, ncalls, locals, posts, result, callbacks, pre >>]_vars

\* the grid point gp lies in the closed box
InClosedBox(gp) == \A d \in Axes : 0 <= gp[d] /\ gp[d] <= box_l[d]
\* every grid point a rank holds between its calls lies in the closed box:
\* the pinned coordinates are allowed to be box_l[d]
C20_ClosedBox == \A r \in Ranks : Returned(r) => \A q \in Ranks : InClosedBox(gridpoints[r][q])

\* C20: every grid point stays inside the periodic box: for every rank and
\* axis d, 0 <= gridpoints[r][d] < box_l[d] after construction and after
\* every sequence of accepted repartitions, for any loads and any mu set
\* through command
C20_InBox ==
  \A r \in Ranks : Returned(r) =>
    \A q \in Ranks : \A d \in Axes :
      0 <= gridpoints[r][q][d] /\ gridpoints[r][q][d] < box_l[d]

\* the ranks whose (lambda, r) terms rank r receives over neighcomm
ExchangeSources(r) == {neighcomm[r].sources[i] : i \in 1 .. Len(neighcomm[r].sources)}
\* rank r has gathered lambda in the running call
LambdaGathered(r) == pc[r] \in {"r", "gather", "reduce", "octagons", "callback"}

\* C21: the load exchange runs over a graph without self-edge that connects
\* a rank with all of its distinct Cartesian neighbors: the terms a rank
\* receives are one per rank of its neighbor list, never its own, and nneigh
\* equals n_neighbors()
C21_ExchangeGraph ==
  \A r \in Ranks :
    /\ r \notin ExchangeSources(r)
    /\ ExchangeSources(r) = NeighborSet(r)
    /\ undirected_neighbor_count(neighcomm[r]) = n_neighbors(r)
    /\ LambdaGathered(r) => Len(lambda[r]) = n_neighbors(r)

\* entry k (0-based) of exchange_vec of rank r is set up for neighbor k
ExchangesWith(r, k) ==
  LET e == exchange_vec[r][k + 1]
  IN  /\ e.dest # EmptyExchangeDesc.dest
      /\ e.dest = neighbor_rank(r, k)
      /\ e.send # << >>
      /\ e.recv # << >>

\* C22: after every reinit(), exchange_vec has n_neighbors() entries, and
\* entry k has dest = neighbor_rank(k), never the unset value -1, and
\* non-empty send and recv lists
C22_ExchangeEntries ==
  \A r \in Ranks : Returned(r) =>
    /\ Len(exchange_vec[r]) = n_neighbors(r)
    /\ \A k \in 0 .. (n_neighbors(r) - 1) : ExchangesWith(r, k)

\* the squared Euclidean distance of two points with finite coordinates
SquaredDistance(v, w) ==
  (v[1] - w[1]) * (v[1] - w[1]) + (v[2] - w[2]) * (v[2] - w[2])
    + (v[3] - w[3]) * (v[3] - w[3])
\* two of the 8 corners of the octagon of rank q over the table gps are
\* closer than 2 * min(cell_size)
CloseCorners(q, gps) ==
  \E bb \in {bounding_box(q, gps)} : \E i, j \in 1 .. 8 :
    /\ i # j
    /\ \A d \in Axes : ~IsNaN(bb[i][d]) /\ ~IsNaN(bb[j][d])
    /\ SquaredDistance(bb[i], bb[j]) < (2 * CS) * (2 * CS)
\* rank r has returned from a call of repartition()
ReturnedFromCall(r) == Returned(r) /\ ncalls[r] >= 1

CollectiveOrder ==
  { << "idle", "lambda" >>, << "lambda", "r" >>, << "r", "gather" >>,
    << "gather", "reduce" >>, << "reduce", "idle" >>, << "reduce", "octagons" >>,
    << "octagons", "callback" >>, << "callback", "idle" >> }
\* rank r has gone into init_octagons in its present call
TookAccept(r) == pc[r] \in {"octagons", "callback"} \/ (ReturnedFromCall(r) /\ result[r] = "true")
\* rank r has returned false from its present call
TookReject(r) == ReturnedFromCall(r) /\ result[r] = "false"
\* every rank has entered call number n
AllCalled(n) == \A r \in Ranks : ncalls[r] >= n
\* every rank has returned from call number n
AllReturned(n) == \A r \in Ranks : ncalls[r] > n \/ (ncalls[r] = n /\ Returned(r))

CellNeighborIndex(r, cellidx, neigh) ==
  /\ pc[r] = "idle"
  /\ global_to_local' = [global_to_local EXCEPT
        ![r] = MapTouch(@, neighbor(cells[r][cellidx + 1], neigh))]
  /\ UNCHANGED << mu, gridpoint, gridpoints, is_regular_grid, my_dom, neighbor_doms,
                  neighbor_idx, topology, nlocalcells, nghostcells, cells, exchange_vec,
                  pc, ncalls, locals, posts, result, callbacks, pre >>

\* position_to_cell_index(pos) on rank r; the checks exist only under GRID_DEBUG
PositionToCellIndex(r, pos) ==
  /\ pc[r] = "idle"
  /\ ~(GRID_DEBUG /\ PositionToRank(r, pos) # r)
  /\ global_to_local' = [global_to_local EXCEPT ![r] = MapTouch(@, cell_at_pos(pos))]
  /\ UNCHANGED << mu, gridpoint, gridpoints, is_regular_grid, my_dom, neighbor_doms,
                  neighbor_idx, topology, nlocalcells, nghostcells, cells, exchange_vec,
                  pc, ncalls, locals, posts, result, callbacks, pre >>

\* position_to_neighidx(pos) on rank r; nothing is looked up when
\* position_to_rank throws
PositionToNeighidx(r, pos) ==
  /\ pc[r] = "idle"
  /\ \E rank \in {PositionToRank(r, pos)} :
       neighbor_idx' = [neighbor_idx EXCEPT
          ![r] = IF rank = PositionUnknown THEN @ ELSE MapTouch(@, rank)]
  /\ UNCHANGED << mu, gridpoint, gridpoints, is_regular_grid, my_dom, neighbor_doms,
                  topology, decomposition, pc, ncalls, locals, posts, result, callbacks,
                  pre >>

QueryNext ==
  \/ \E r \in Ranks : \E cellidx \in 0 .. (Len(cells[r]) - 1) : \E neigh \in 0 .. 25 :
       CellNeighborIndex(r, cellidx, neigh)
  \/ \E r \in Ranks : \E g \in Cells : PositionToCellIndex(r, midpoint(g))
  \/ \E r \in Ranks : \E g \in Cells : PositionToNeighidx(r, midpoint(g))

\* the object after construction, and then queries only
QuerySpec == Init /\ [][QueryNext]_vars

\* global_to_local of rank r maps exactly the cells of cells[r], each to its index
IndexBijection(r) ==
  /\ DOMAIN global_to_local[r] = {cells[r][i] : i \in 1 .. Len(cells[r])}
  /\ \A g \in DOMAIN global_to_local[r] : cells[r][global_to_local[r][g] + 1] = g
\* neighbor_idx of rank r is the inverse of neighbor_ranks
IndexInverse(r) ==
  /\ DOMAIN neighbor_idx[r] = {neighbor_ranks[r][i] : i \in 1 .. Len(neighbor_ranks[r])}
  /\ \A i \in 0 .. (n_neighbors(r) - 1) : neighbor_idx[r][neighbor_rank(r, i)] = i

\* C25: cell_neighbor_index, position_to_cell_index and position_to_neighidx
\* leave global_to_local, neighbor_idx, cells and exchange_vec as they are for
\* every argument, so global_to_local stays a bijection onto the indices of
\* cells and neighbor_idx stays the inverse of neighbor_ranks after any
\* sequence of queries.  (position_to_rank is const and touches no map.)
C25_ReadOnly ==
  /\ [][UNCHANGED << global_to_local, neighbor_idx, cells, exchange_vec >>]_vars
  /\ [](\A r \in Ranks : IndexBijection(r) /\ IndexInverse(r))

(***************************************************************************)
(* One repartition() on the process grid WideGrid: rank 0 and rank 2, and  *)
(* rank 1 and rank 3, are no neighbours of each other.                     *)
(***************************************************************************)
WideInit == Construct(WideGrid)

\* the command given before the call: "mu = 4."
WideCommands == { << "m", "u", " ", "=", " ", "4", "." >> }

WideNext ==
  \/ \E r \in Ranks, s \in WideCommands : ncalls[r] = 0 /\ Command(r, s)
  \/ \E r \in Ranks, w \in Loads : ncalls[r] = 0 /\ Call(r, w)
  \/ \E r \in Ranks : Progress(r)

WideSpec == WideInit /\ [][WideNext]_vars

\* reinit() of rank r threw "Position unknown" out of repartition()
Failed(r) == pc[r] = "failed"

\* the owner reinit() of rank r finds for the cell g
OwnerOf(r, g) == gloidx_to_rank(r, Grid(r), g)

\* C26: the rebuild after an accepted repartition never fails with
\* "Position unknown": no rank leaves repartition() by that exception, and on
\* a rank that has returned to a deformed grid every cell of the full shell of
\* every local cell has an owner, the rank itself or one of its neighbour
\* list, which has the cell among its local cells once it has returned from
\* the same call.
C26_RebuildSucceeds ==
  \A r \in Ranks :
    /\ ~Failed(r)
    /\ (Returned(r) /\ ~is_regular_grid[r]) =>
         \A i \in 1 .. nlocalcells[r] : \A k \in 1 .. 26 :
           \E g \in {full_shell_neigh_without_center(cells[r][i])[k]} :
           \E o \in {OwnerOf(r, g)} :
             /\ o # PositionUnknown
             /\ o = r \/ InSeq(neighbor_ranks[r], o)
             /\ (Returned(o) /\ ncalls[o] = ncalls[r]) => g \in LocalSet(o)
====
